---- MODULE Spec2Model ----
(***************************************************************************)
(* Model of AudioTranscriptionService.process_audio_transcription          *)
(* (src/shared/transcription_service.py): validation, normalisation, the   *)
(* chunk-splitting worker thread, staging to the bucket, the semaphore     *)
(* gated recognition tasks run by asyncio.gather, assembly, persistence    *)
(* and the finally block.                                                  *)
(*                                                                         *)
(* Text is a sequence of one-character strings, so that str.strip, the     *)
(* truthiness filter and "\n".join are computed and not assumed.           *)
(* Durations are in abstract time units (one unit stands for 100000 ms).   *)
(***************************************************************************)
EXTENDS Integers, Sequences, FiniteSets, TLC

\* ---------------------------------------------------------------- bounds
\* longest decoded audio, in time units
MaxDur == 4
\* largest chunk_length_ms the caller passes, in time units
MaxChunkLen == 3

\* ------------------------------------------------------ program constants
\* asyncio.Semaphore(5)
SemaphoreSlots == 5
\* config.MAX_CONCURRENT_TRANSCRIPTIONS, defined but read by no code
MAX_CONCURRENT_TRANSCRIPTIONS == 5

\* ------------------------------------------------------------------ text
NL == "\n"
SP == " "
Whitespace == {" ", "\n", "\t"}

\* Optional[str]: Python None, or a string
None == [none |-> TRUE, text |-> <<>>]
Str(s) == [none |-> FALSE, text |-> s]

RECURSIVE LStrip(_)
LStrip(s) == IF s # <<>> /\ Head(s) \in Whitespace THEN LStrip(Tail(s)) ELSE s

RECURSIVE RStrip(_)
RStrip(s) ==
  IF s # <<>> /\ s[Len(s)] \in Whitespace
  THEN RStrip(SubSeq(s, 1, Len(s) - 1))
  ELSE s

\* str.strip()
Strip(s) == RStrip(LStrip(s))

\* sep.join(parts)
RECURSIVE Join(_, _)
Join(sep, parts) ==
  IF parts = <<>> THEN <<>>
  ELSE IF Len(parts) = 1 THEN parts[1]
  ELSE parts[1] \o sep \o Join(sep, Tail(parts))

\* ------------------------------------------------------------ chunk math
Min(a, b) == IF a < b THEN a ELSE b

\* a slip: a negative chunk length is taken for its absolute value
NumberOfChunksAbs(T, L) ==
  IF L > 0 THEN (T + L - 1) \div L
  ELSE IF L < 0 THEN (T + (0 - L) - 1) \div (0 - L) ELSE 0

\* a plausible slip: floor instead of ceil drops the trailing partial chunk
NumberOfChunksFloor(T, L) == IF L > 0 THEN T \div L ELSE 0

\* pydub.make_chunks: int(ceil(len(audio) / float(chunk_length)));
\* a negative chunk_length gives a non-positive count, hence no chunk
NumberOfChunks(T, L) == IF L > 0 THEN (T + L - 1) \div L ELSE 0

\* audio[i*L:(i+1)*L], slice ends clamped to len(audio); i is zero-based
ChunkSlice(T, L, i) ==
  [start    |-> Min(i * L, T),
   duration |-> Min((i + 1) * L, T) - Min(i * L, T)]

\* make_chunks(audio, chunk_length_ms), for chunk_length_ms # 0
MakeChunks(T, L) == [k \in 1..NumberOfChunks(T, L) |-> ChunkSlice(T, L, k - 1)]

\* --------------------------------------------------- recognition results
\* what is spoken in the audio of chunk c (1-based): one word naming c
Word(c) == <<ToString(c)>>

\* response.results as a list of alternatives[0].transcript values: no
\* segment, a blank segment, the word, the word after a leading blank
Responses(c) == { <<>>, << <<SP>> >>, <<Word(c)>>, << <<SP>> \o Word(c) >> }

\* transcribe_audio_chunk, lines 375-381
RECURSIVE ConcatSegments(_)
ConcatSegments(segs) ==
  IF segs = <<>> THEN <<>>
  ELSE Head(segs) \o <<SP>> \o ConcatSegments(Tail(segs))

\* a slip: the segments are glued together without the space
TranscriptOfNoSpace(segs) == Str(Strip(Join(<<>>, segs)))

\* "return transcript.strip()", line 381
TranscriptOf(segs) == Str(Strip(ConcatSegments(segs)))

\* ----------------------------------------------------------------- state
VARIABLES
  inputOk,          \* validate_audio_file(audio_path): file exists, size > 0
  duration,         \* len(audio) of the decoded input
  chunk_length_ms,  \* the caller's chunk_length_ms
  pc,               \* position in process_audio_transcription
  outcome,          \* "running", "Succeeded", "Failed" or "Cancelled"
  err,              \* which raise ended the run
  tempDir,          \* temp_dir of process_audio_transcription exists
  wavFile,          \* temp_dir/optimized_audio.wav exists
  normState,        \* the convert_audio worker thread
  chunkDir,         \* the mkdtemp directory of split_audio exists
  diskChunks,       \* indices of the chunk_XXXX.wav files on disk
  chunks,           \* make_chunks(...) inside split_audio
  splitState,       \* the split_audio worker thread
  splitPos,         \* chunks exported so far by split_audio
  chunk_files,      \* chunk_files of process_audio_transcription
  gcs_uris,         \* gcs_uris of process_audio_chunks_parallel
  bucket,           \* blob key -> chunk whose audio the blob holds
  task,             \* state of each limited_transcribe task
  result,           \* value returned by each task
  semaphore,        \* value of asyncio.Semaphore(5)
  transcripts,      \* the list asyncio.gather returned
  final_transcript, \* "\n".join(...)
  outFile,          \* the file at output_path
  outOfOrder,       \* some chunk completed before a lower-indexed one
  attempts,         \* recognition attempts made for each chunk
  segments,         \* response.results of one recognition, first alternatives
  transcript,       \* what transcribe_audio_chunk made of segments
  file_size_mb,     \* size of the uploaded file, in MB
  is_video,         \* the upload has a video suffix
  optimal_chunk_length_ms, \* result of calculate_optimal_chunk_length
  authenticated,    \* st.session_state.authenticated
  login_attempts,   \* st.session_state.login_attempts
  processing_status, \* st.session_state.processing_status
  webPc,            \* position in process_transcription / async_transcribe
  input_file,       \* the saved copy of the upload exists
  audio_file,       \* the audio extracted from a video exists
  output_file,      \* the temporary output text file exists
  web_result        \* result of async_transcribe

fsVars   == <<tempDir, wavFile, chunkDir, diskChunks, outFile>>
normVars == <<normState>>
splitVars == <<chunks, splitState, splitPos, chunk_files>>
stageVars == <<gcs_uris, bucket>>
taskVars == <<task, result, semaphore, outOfOrder, attempts>>
textVars == <<transcripts, final_transcript>>
segVars  == <<segments, transcript>>
sizeVars == <<file_size_mb, is_video, optimal_chunk_length_ms>>
loginVars == <<authenticated, login_attempts>>
webVars  == <<processing_status, webPc, input_file, audio_file, output_file,
              web_result>>
\* what no step of process_audio_transcription changes: its arguments and
\* the state of the code around it
inVars   == <<inputOk, duration, chunk_length_ms, segVars, sizeVars,
              loginVars, webVars>>
vars == <<inVars, pc, outcome, err, fsVars, normVars, splitVars, stageVars,
          taskVars, textVars>>

Absent       == [st |-> "absent",  text |-> <<>>]
OldFile      == [st |-> "old",     text |-> <<>>]
Partial(t)   == [st |-> "partial", text |-> t]

\* no recognition response is being joined
NoSegments ==
  /\ segments = <<>>
  /\ transcript = None

\* no upload is being sized
NoUpload ==
  /\ file_size_mb = 0
  /\ is_video = FALSE
  /\ optimal_chunk_length_ms = 0

\* a session that has passed the login
LoggedIn ==
  /\ authenticated = TRUE
  /\ login_attempts = 0

\* the web layer while it waits inside process_audio_transcription
InsideRun ==
  /\ processing_status = "processing"
  /\ webPc = "pipeline"
  /\ input_file = TRUE
  /\ audio_file = FALSE
  /\ output_file = TRUE
  /\ web_result = None

\* the code around a run of process_audio_transcription
AroundRun == NoSegments /\ NoUpload /\ LoggedIn /\ InsideRun

Init ==
  /\ AroundRun
  /\ inputOk \in BOOLEAN
  /\ duration \in 0..MaxDur
  /\ chunk_length_ms \in (-1)..MaxChunkLen
  /\ outFile \in {Absent, OldFile}
  /\ pc = "validate"
  /\ outcome = "running"
  /\ err = "none"
  /\ tempDir = FALSE
  /\ wavFile = FALSE
  /\ normState = "idle"
  /\ chunkDir = FALSE
  /\ diskChunks = {}
  /\ chunks = <<>>
  /\ splitState = "idle"
  /\ splitPos = 0
  /\ chunk_files = <<>>
  /\ gcs_uris = <<>>
  /\ bucket = <<>>
  /\ task = <<>>
  /\ result = <<>>
  /\ semaphore = SemaphoreSlots
  /\ transcripts = <<>>
  /\ final_transcript = <<>>
  /\ outOfOrder = FALSE
  /\ attempts = <<>>

\* raise inside the try block: control passes to the finally block
Raise(e) ==
  /\ pc' = "finally"
  /\ err' = e

\* ------------------------------------------------------------- validation
\* a slip: the result of validate_audio_file is not looked at
InputAcceptedAlways(ok) == TRUE

\* "if not self.validate_audio_file(audio_path)", line 472
InputAccepted(ok) == ok

\* lines 471-477
Validate ==
  /\ pc = "validate"
  /\ IF InputAccepted(inputOk)
     THEN /\ tempDir' = TRUE
          /\ pc' = "normalize"
          /\ UNCHANGED <<outcome, err>>
     ELSE /\ pc' = "done"
          /\ outcome' = "Failed"
          /\ err' = "InputError"
          /\ UNCHANGED tempDir
  /\ UNCHANGED <<inVars, wavFile, chunkDir, diskChunks, outFile, normVars,
                 splitVars, stageVars, taskVars, textVars>>

\* ---------------------------------------------------------- normalisation
\* convert_to_wav_if_needed up to the await: an already optimal WAV is
\* copied, an unreadable WAV raises, anything else goes to convert_audio
ConvertStart ==
  /\ pc = "normalize"
  /\ normState = "idle"
  /\ \/ /\ wavFile' = TRUE
        /\ pc' = "chunk"
        /\ UNCHANGED <<err, normState>>
     \/ /\ Raise("NormalizationError")
        /\ UNCHANGED <<wavFile, normState>>
     \/ /\ normState' = "running"
        /\ UNCHANGED <<pc, err, wavFile>>
  /\ UNCHANGED <<inVars, outcome, tempDir, chunkDir, diskChunks, outFile,
                 splitVars, stageVars, taskVars, textVars>>

\* convert_audio in its worker thread: export writes the file when the
\* directory still exists, or decoding/export raises
ConvertThread ==
  /\ normState = "running"
  /\ \/ /\ tempDir
        /\ wavFile' = TRUE
        /\ normState' = "exported"
     \/ /\ normState' = "failed"
        /\ UNCHANGED wavFile
  /\ UNCHANGED <<inVars, pc, outcome, err, tempDir, chunkDir, diskChunks,
                 outFile, splitVars, stageVars, taskVars, textVars>>

\* a slip: the result of convert_to_wav_if_needed is not looked at
ConvertSucceededAlways(ns, wf) == TRUE

\* convert_audio did not raise and the output file exists, lines 265-277
ConvertSucceeded(ns, wf) == ns = "exported" /\ wf

\* the await of to_thread(convert_audio) resumes, lines 265-277 and 485-486
ConvertReturn ==
  /\ pc = "normalize"
  /\ normState \in {"exported", "failed"}
  /\ IF ConvertSucceeded(normState, wavFile)
     THEN pc' = "chunk" /\ UNCHANGED err
     ELSE Raise("NormalizationError")
  /\ UNCHANGED <<inVars, outcome, fsVars, normVars, splitVars, stageVars,
                 taskVars, textVars>>

\* --------------------------------------------------------------- chunking
\* split_audio starts in its worker thread, lines 294-299: from_wav or
\* make_chunks (division by zero) raises before mkdtemp, or the chunks are
\* computed and the directory for the chunk files is created
SplitStart ==
  /\ pc = "chunk"
  /\ splitState = "idle"
  /\ \/ /\ chunk_length_ms # 0
        /\ chunks' = MakeChunks(duration, chunk_length_ms)
        /\ chunkDir' = TRUE
        /\ splitState' = "running"
     \/ /\ splitState' = "failed"
        /\ UNCHANGED <<chunks, chunkDir>>
  /\ UNCHANGED <<inVars, pc, outcome, err, tempDir, wavFile, diskChunks,
                 outFile, normVars, splitPos, chunk_files, stageVars,
                 taskVars, textVars>>

\* one iteration of the export loop, lines 301-304: the chunk file is
\* written, or chunk.export raises and the thread ends
SplitExport ==
  /\ splitState = "running"
  /\ splitPos < Len(chunks)
  /\ \/ /\ diskChunks' = diskChunks \cup {splitPos + 1}
        /\ splitPos' = splitPos + 1
        /\ UNCHANGED splitState
     \/ /\ splitState' = "failed"
        /\ UNCHANGED <<diskChunks, splitPos>>
  /\ UNCHANGED <<inVars, pc, outcome, err, tempDir, wavFile, chunkDir,
                 outFile, normVars, chunks, chunk_files, stageVars,
                 taskVars, textVars>>

\* a slip: an empty list of chunk files is not looked at
SplitSucceededAlways(files) == TRUE

\* "if not chunk_files", line 490
SplitSucceeded(files) == files # <<>>

\* the await of to_thread(split_audio) resumes, lines 308-315 and 489-491:
\* the list of written files, or [] when the thread raised
SplitReturn ==
  /\ pc = "chunk"
  /\ \/ splitState = "failed"
     \/ splitState = "running" /\ splitPos = Len(chunks)
  /\ chunk_files' = IF splitState = "failed" THEN <<>>
                    ELSE [k \in 1..Len(chunks) |-> k]
  /\ splitState' = IF splitState = "failed" THEN "failed" ELSE "finished"
  /\ IF ~SplitSucceeded(chunk_files')
     THEN Raise("ChunkingError")
     ELSE pc' = "stage" /\ UNCHANGED err
  /\ UNCHANGED <<inVars, outcome, fsVars, normVars, chunks, splitPos,
                 stageVars, taskVars, textVars>>

\* ---------------------------------------------------------------- staging
\* f"audio_chunks/chunk_{i:04d}.wav": the key depends on the index only
GcsPath(i) == i

\* one iteration of the upload loop, lines 401-405: upload_to_gcs stores
\* the blob or swallows the error; its return value is not looked at
Upload ==
  /\ pc = "stage"
  /\ Len(gcs_uris) < Len(chunk_files)
  /\ LET i == Len(gcs_uris) + 1 IN
       /\ \/ bucket' = (GcsPath(i) :> chunk_files[i]) @@ bucket
          \/ UNCHANGED bucket
       /\ gcs_uris' = Append(gcs_uris, GcsPath(i))
  /\ UNCHANGED <<inVars, pc, outcome, err, fsVars, normVars, splitVars,
                 taskVars, textVars>>

\* a slip: the tasks are built as soon as one uri is there
AllStagedEarly(uris, files) == uris # <<>>

\* the upload loop of lines 400-405 has run for every chunk file
AllStaged(uris, files) == Len(uris) = Len(files)

\* ---------------------------------------------------------- transcription
\* lines 407-419: one coroutine per uri, each wrapped by limited_transcribe
\* and handed to asyncio.gather
StartTasks ==
  /\ pc = "stage"
  /\ AllStaged(gcs_uris, chunk_files)
  /\ task' = [i \in 1..Len(gcs_uris) |-> "waiting"]
  /\ result' = [i \in 1..Len(gcs_uris) |-> None]
  /\ semaphore' = SemaphoreSlots
  /\ attempts' = [i \in 1..Len(gcs_uris) |-> 0]
  /\ pc' = "transcribe"
  /\ UNCHANGED <<inVars, outcome, err, fsVars, normVars, splitVars,
                 stageVars, outOfOrder, textVars>>

InFlight == {i \in DOMAIN task : task[i] = "running"}

\* a slip: the gate admits whoever asks
CanAcquireAlways(sem) == TRUE

\* Semaphore.acquire succeeds while the value is positive
CanAcquire(sem) == sem > 0

\* async with semaphore, line 416: tasks are admitted first come first
\* served, and they asked in index order
Acquire(i) ==
  /\ pc = "transcribe"
  /\ task[i] = "waiting"
  /\ \A j \in 1..(i - 1) : task[j] # "waiting"
  /\ CanAcquire(semaphore)
  /\ task' = [task EXCEPT ![i] = "running"]
  /\ semaphore' = semaphore - 1
  /\ attempts' = [attempts EXCEPT ![i] = @ + 1]
  /\ UNCHANGED <<inVars, pc, outcome, err, fsVars, normVars, splitVars,
                 stageVars, result, outOfOrder, textVars>>

\* what transcribe_audio_chunk(gcs_uris[i], i) can return, lines 350-385:
\* None when the call or the wait raises (always so when no blob is
\* there), else the joined segments of the audio the blob holds
Returns(i) ==
  {None} \cup
  (IF gcs_uris[i] \in DOMAIN bucket
   THEN {TranscriptOf(segs) : segs \in Responses(bucket[gcs_uris[i]])}
   ELSE {})

\* a slip: a failed chunk takes the unfinished siblings down with it
TasksAfterAborting(tk, i, r) ==
  [j \in DOMAIN tk |->
     IF j = i \/ tk[j] = "done" THEN "done"
     ELSE IF r = None THEN "cancelled" ELSE tk[j]]

\* the tasks once task i has returned r: the except clause of line 383
\* turns a failure into the value None, so no sibling notices it
TasksAfter(tk, i, r) == [tk EXCEPT ![i] = "done"]

\* a slip: the slot of a failed call is not given back
ReleaseOnSuccess(sem, r) == IF r = None THEN sem ELSE sem + 1

\* leaving "async with semaphore", line 416: the slot is given back
\* whatever the call returned
Release(sem, r) == sem + 1

\* the recognition of task i ends and the task leaves the gate
Complete(i) ==
  /\ pc = "transcribe"
  /\ task[i] = "running"
  /\ \E r \in Returns(i) :
       /\ result' = [result EXCEPT ![i] = r]
       /\ task' = TasksAfter(task, i, r)
       /\ semaphore' = Release(semaphore, r)
  /\ outOfOrder' = (outOfOrder \/ \E j \in 1..(i - 1) : task[j] # "done")
  /\ UNCHANGED <<inVars, pc, outcome, err, fsVars, normVars, splitVars,
                 stageVars, attempts, textVars>>

\* a slip: results collected back to front
GatherReversed(res) == [i \in 1..Len(res) |-> res[Len(res) + 1 - i]]

\* asyncio.gather: the results in the order of its arguments
Gather(res) == [i \in 1..Len(res) |-> res[i]]

\* a slip: the wait ends with the first task that is done
AnyDone(tk) == \E i \in DOMAIN tk : tk[i] = "done"

\* asyncio.gather waits for all of its arguments
AllDone(tk) == \A i \in DOMAIN tk : tk[i] = "done"

\* line 419-420 and 494: gather returns once every task is done
GatherReturn ==
  /\ pc = "transcribe"
  /\ AllDone(task)
  /\ transcripts' = Gather(result)
  /\ pc' = "assemble"
  /\ UNCHANGED <<inVars, outcome, err, fsVars, normVars, splitVars,
                 stageVars, taskVars, final_transcript>>

\* --------------------------------------------------------------- assembly
\* a slip: only None is dropped, empty strings are joined in
TruthyNotNone(t) == ~t.none

\* "if t" on an Optional[str]: neither None nor ""
Truthy(t) == ~t.none /\ t.text # <<>>

RECURSIVE Texts(_)
Texts(ts) ==
  IF ts = <<>> THEN <<>> ELSE <<Head(ts).text>> \o Texts(Tail(ts))

\* "\n".join([t for t in transcripts if t]), line 497
JoinTranscripts(ts) == Join(<<NL>>, Texts(SelectSeq(ts, Truthy)))

\* a slip: the run is failed as soon as one chunk has no result
IsEmptyOrAnyNone(ts, final) ==
  Strip(final) = <<>> \/ \E i \in DOMAIN ts : ts[i].none

\* a slip: the check of line 499 is left out
IsEmptyNever(ts, final) == FALSE

\* "if not final_transcript.strip()", line 499
IsEmptyTranscript(ts, final) == Strip(final) = <<>>

\* lines 496-500
Assemble ==
  /\ pc = "assemble"
  /\ final_transcript' = JoinTranscripts(transcripts)
  /\ IF IsEmptyTranscript(transcripts, final_transcript')
     THEN Raise("EmptyTranscriptError")
     ELSE pc' = "persist" /\ UNCHANGED err
  /\ UNCHANGED <<inVars, outcome, fsVars, normVars, splitVars, stageVars,
                 taskVars, transcripts>>

\* ------------------------------------------------------------ persistence
\* a slip: a header line is written before the text
WrittenWithHeader(t) == [st |-> "written", text |-> <<"#", NL>> \o t]

\* f.write(transcript), line 444: the file holds the text and nothing else
Written(t) == [st |-> "written", text |-> t]

\* what a write that fails after open(output_path, 'w') can leave behind:
\* the truncated file, or the text short of its end
PartialWrites(t) == {SubSeq(t, 1, k) : k \in {0, Len(t) - 1}}

\* save_transcript_locally and lines 503-508: the text is written; or
\* mkdir/open raises and the file is untouched; or the write raises after
\* open truncated the file. A False return becomes the raise of line 505.
Persist ==
  /\ pc = "persist"
  /\ \/ /\ outFile' = Written(final_transcript)
        /\ pc' = "finally"
        /\ UNCHANGED err
     \/ /\ UNCHANGED outFile
        /\ Raise("PersistError")
     \/ /\ \E t \in PartialWrites(final_transcript) : outFile' = Partial(t)
        /\ Raise("PersistError")
  /\ UNCHANGED <<inVars, outcome, tempDir, wavFile, chunkDir, diskChunks,
                 normVars, splitVars, stageVars, taskVars, textVars>>

\* ---------------------------------------------------------------- cleanup
Range(f) == {f[x] : x \in DOMAIN f}

\* lines 520-522: every file named in chunk_files is unlinked
UnlinkListed(files, listed) == files \ Range(listed)

\* a slip: the False of save_transcript_locally is handed to the caller
ExitSignalPassesFalse(e) ==
  IF e = "none" THEN "Succeeded"
  ELSE IF e = "PersistError" THEN "ReturnedFalse"
  ELSE IF e = "Cancelled" THEN "Cancelled" ELSE "Failed"

\* how the call ends: "Succeeded" is the return True of line 508,
\* "Failed" the re-raise of line 512, "Cancelled" a CancelledError
ExitSignal(e) ==
  IF e = "none" THEN "Succeeded"
  ELSE IF e = "Cancelled" THEN "Cancelled" ELSE "Failed"

\* the finally block, lines 514-522, then the return or the re-raise
Finally ==
  /\ pc = "finally"
  /\ tempDir' = FALSE
  /\ wavFile' = FALSE
  /\ diskChunks' = UnlinkListed(diskChunks, chunk_files)
  /\ outcome' = ExitSignal(err)
  /\ pc' = "done"
  /\ UNCHANGED <<inVars, err, chunkDir, outFile, normVars, splitVars,
                 stageVars, taskVars, textVars>>

\* ----------------------------------------------------------- cancellation
\* the awaits at which the run can be abandoned: the two to_thread calls,
\* the gather, and (by an interrupt) the upload loop
Cancellable ==
  \/ pc = "normalize" /\ normState # "idle"
  \/ pc = "chunk" /\ splitState # "idle"
  \/ pc = "stage"
  \/ pc = "transcribe"

\* CancelledError is not an Exception: no except clause of the service
\* catches it and the worker threads run on. The gather cancels its tasks
\* and the frame of process_audio_chunks_parallel unwinds, taking the
\* tasks, their results and the semaphore with it; the finally block runs
Cancel ==
  /\ Cancellable
  /\ Raise("Cancelled")
  /\ task' = <<>>
  /\ result' = <<>>
  /\ semaphore' = SemaphoreSlots
  /\ outOfOrder' = FALSE
  /\ attempts' = <<>>
  /\ UNCHANGED <<inVars, outcome, fsVars, normVars, splitVars, stageVars,
                 textVars>>

\* ---------------------------------------------------------- specification
Next ==
  \/ Validate
  \/ ConvertStart
  \/ ConvertThread
  \/ ConvertReturn
  \/ SplitStart
  \/ SplitExport
  \/ SplitReturn
  \/ Upload
  \/ StartTasks
  \/ \E i \in DOMAIN task : Acquire(i)
  \/ \E i \in DOMAIN task : Complete(i)
  \/ GatherReturn
  \/ Assemble
  \/ Persist
  \/ Finally
  \/ Cancel

Spec == Init /\ [][Next]_vars

\* --------------------------------------------------------- type invariant
TypeOK ==
  /\ pc \in {"validate", "normalize", "chunk", "stage", "transcribe",
             "assemble", "persist", "finally", "done"}
  /\ outcome \in {"running", "Succeeded", "Failed", "Cancelled"}
  /\ (pc = "done") = (outcome # "running")
  /\ semaphore \in 0..SemaphoreSlots
  /\ Len(task) = Len(result)

\* ------------------------------------------- chunk arithmetic on its own
\* longest audio and longest chunk length of the chunk-arithmetic runs
MaxSplitDur == 14
MaxSplitLen == 7

\* a run that has reached the Chunk stage with a normalised file in place
InitChunks ==
  /\ AroundRun
  /\ inputOk = TRUE
  /\ duration \in 1..MaxSplitDur
  /\ chunk_length_ms \in 1..MaxSplitLen
  /\ outFile = Absent
  /\ pc = "chunk"
  /\ outcome = "running"
  /\ err = "none"
  /\ tempDir = TRUE
  /\ wavFile = TRUE
  /\ normState = "idle"
  /\ chunkDir = FALSE
  /\ diskChunks = {}
  /\ chunks = <<>>
  /\ splitState = "idle"
  /\ splitPos = 0
  /\ chunk_files = <<>>
  /\ gcs_uris = <<>>
  /\ bucket = <<>>
  /\ task = <<>>
  /\ result = <<>>
  /\ semaphore = SemaphoreSlots
  /\ transcripts = <<>>
  /\ final_transcript = <<>>
  /\ outOfOrder = FALSE
  /\ attempts = <<>>

NextChunks ==
  \/ SplitStart
  \/ SplitExport
  \/ SplitReturn

SpecChunks == InitChunks /\ [][NextChunks]_vars

\* ------------------------------------------- the admission gate under load
\* longest audio of the runs that load the gate, in time units
MaxGateDur == 6

\* runs with chunks of one time unit, at least as many as the gate admits
InitGate ==
  /\ AroundRun
  /\ inputOk = TRUE
  /\ duration \in SemaphoreSlots..MaxGateDur
  /\ chunk_length_ms = 1
  /\ outFile = Absent
  /\ pc = "validate"
  /\ outcome = "running"
  /\ err = "none"
  /\ tempDir = FALSE
  /\ wavFile = FALSE
  /\ normState = "idle"
  /\ chunkDir = FALSE
  /\ diskChunks = {}
  /\ chunks = <<>>
  /\ splitState = "idle"
  /\ splitPos = 0
  /\ chunk_files = <<>>
  /\ gcs_uris = <<>>
  /\ bucket = <<>>
  /\ task = <<>>
  /\ result = <<>>
  /\ semaphore = SemaphoreSlots
  /\ transcripts = <<>>
  /\ final_transcript = <<>>
  /\ outOfOrder = FALSE
  /\ attempts = <<>>

SpecGate == InitGate /\ [][Next]_vars

\* ------------------------------------------------ a bucket used before
\* longest audio of the runs on a bucket that earlier runs have used
MaxSharedDur == 3

\* the audio an earlier run left under key k: no code deletes a blob
Stale(k) == 0 - k

\* a run on a bucket in which an earlier run of MaxSharedDur chunks has
\* staged its chunks under the same keys
InitShared ==
  /\ AroundRun
  /\ inputOk = TRUE
  /\ duration \in 1..MaxSharedDur
  /\ chunk_length_ms = 1
  /\ outFile = Absent
  /\ pc = "validate"
  /\ outcome = "running"
  /\ err = "none"
  /\ tempDir = FALSE
  /\ wavFile = FALSE
  /\ normState = "idle"
  /\ chunkDir = FALSE
  /\ diskChunks = {}
  /\ chunks = <<>>
  /\ splitState = "idle"
  /\ splitPos = 0
  /\ chunk_files = <<>>
  /\ gcs_uris = <<>>
  /\ bucket = [k \in 1..MaxSharedDur |-> Stale(k)]
  /\ task = <<>>
  /\ result = <<>>
  /\ semaphore = SemaphoreSlots
  /\ transcripts = <<>>
  /\ final_transcript = <<>>
  /\ outOfOrder = FALSE
  /\ attempts = <<>>

SpecShared == InitShared /\ [][Next]_vars

\* ------------------------------------------- runs that are left to finish
\* longest audio of the short runs that are never cancelled, in time units
MaxLiveDur == 2

\* most chunks of the long runs that are never cancelled
MaxLiveChunks == 6

\* runs with chunks of one time unit: short ones from the call on, and
\* ones with more chunks than the gate admits at once from the moment the
\* upload loop has stored every chunk
InitLive ==
  /\ AroundRun
  /\ chunk_length_ms = 1
  /\ outFile = Absent
  /\ outcome = "running"
  /\ err = "none"
  /\ normState = "idle"
  /\ task = <<>>
  /\ result = <<>>
  /\ semaphore = SemaphoreSlots
  /\ transcripts = <<>>
  /\ final_transcript = <<>>
  /\ outOfOrder = FALSE
  /\ attempts = <<>>
  /\ \/ /\ inputOk \in BOOLEAN
        /\ duration \in 0..MaxLiveDur
        /\ pc = "validate"
        /\ tempDir = FALSE
        /\ wavFile = FALSE
        /\ chunkDir = FALSE
        /\ diskChunks = {}
        /\ chunks = <<>>
        /\ splitState = "idle"
        /\ splitPos = 0
        /\ chunk_files = <<>>
        /\ gcs_uris = <<>>
        /\ bucket = <<>>
     \/ /\ inputOk = TRUE
        /\ duration \in (SemaphoreSlots + 1)..MaxLiveChunks
        /\ pc = "stage"
        /\ tempDir = TRUE
        /\ wavFile = TRUE
        /\ chunkDir = TRUE
        /\ diskChunks = 1..duration
        /\ chunks = MakeChunks(duration, 1)
        /\ splitState = "finished"
        /\ splitPos = duration
        /\ chunk_files = [k \in 1..duration |-> k]
        /\ gcs_uris = [k \in 1..duration |-> GcsPath(k)]
        /\ bucket = [k \in 1..duration |-> k]

\* the steps of a run that nobody cancels
NextLive ==
  \/ Validate
  \/ ConvertStart
  \/ ConvertThread
  \/ ConvertReturn
  \/ SplitStart
  \/ SplitExport
  \/ SplitReturn
  \/ Upload
  \/ StartTasks
  \/ \E i \in DOMAIN task : Acquire(i)
  \/ \E i \in DOMAIN task : Complete(i)
  \/ GatherReturn
  \/ Assemble
  \/ Persist
  \/ Finally

\* the event loop runs every task that can run, and every call that was
\* started in a worker thread returns
SpecLive == InitLive /\ [][NextLive]_vars /\ WF_vars(NextLive)

\* -------------------------------------------- the code around the pipeline
\* process_audio_transcription has not been called
NoRun ==
  /\ inputOk = TRUE
  /\ duration = 0
  /\ chunk_length_ms = 0
  /\ outFile = Absent
  /\ pc = "validate"
  /\ outcome = "running"
  /\ err = "none"
  /\ tempDir = FALSE
  /\ wavFile = FALSE
  /\ normState = "idle"
  /\ chunkDir = FALSE
  /\ diskChunks = {}
  /\ chunks = <<>>
  /\ splitState = "idle"
  /\ splitPos = 0
  /\ chunk_files = <<>>
  /\ gcs_uris = <<>>
  /\ bucket = <<>>
  /\ task = <<>>
  /\ result = <<>>
  /\ semaphore = SemaphoreSlots
  /\ transcripts = <<>>
  /\ final_transcript = <<>>
  /\ outOfOrder = FALSE
  /\ attempts = <<>>

runVars == <<pc, outcome, err, fsVars, normVars, splitVars, stageVars,
             taskVars, textVars, inputOk, duration, chunk_length_ms>>

\* ------------------------------------------ the joining of one response
\* most segments in a recognition response
MaxSegments == 3

\* alternatives[0].transcript of a segment: empty, words, blanks around them
SegmentTexts ==
  { <<>>, <<"a">>, <<SP>>, <<SP, "a">>, <<"a", SP>>, <<"a", SP, "b">> }

SegmentLists == UNION { [1..n -> SegmentTexts] : n \in 0..MaxSegments }

InitSegments ==
  /\ NoRun
  /\ NoUpload
  /\ LoggedIn
  /\ InsideRun
  /\ segments \in SegmentLists
  /\ transcript = None

\* lines 375-381 on a response that arrived
JoinSegments ==
  /\ transcript = None
  /\ transcript' = TranscriptOf(segments)
  /\ UNCHANGED <<runVars, segments, sizeVars, loginVars, webVars>>

NextSegments == JoinSegments

SpecSegments == InitSegments /\ [][NextSegments]_vars

\* ----------------------------------------------- the chunk length policy
\* largest upload that is sized, in MB
MaxSizeMB == 310

\* the size limits of calculate_optimal_chunk_length, in MB
VideoSmallMB == 100
VideoMediumMB == 300
AudioSmallMB == 50
AudioMediumMB == 150

\* its chunk lengths, in ms: 5 * 60 * 1000, 3 * 60 * 1000, 2 * 60 * 1000
\* and 90 * 1000
FiveMinutes == 300000
ThreeMinutes == 180000
TwoMinutes == 120000
NinetySeconds == 90000

\* a slip: the audio branch hands the long chunks to the large files
calculate_chunk_length_reversed(size, video) ==
  IF video
  THEN IF size < VideoSmallMB THEN ThreeMinutes
       ELSE IF size < VideoMediumMB THEN TwoMinutes
       ELSE NinetySeconds
  ELSE IF size < AudioSmallMB THEN TwoMinutes
       ELSE IF size < AudioMediumMB THEN ThreeMinutes
       ELSE FiveMinutes

\* calculate_optimal_chunk_length on a file of size MB
calculate_optimal_chunk_length(size, video) ==
  IF video
  THEN IF size < VideoSmallMB THEN ThreeMinutes
       ELSE IF size < VideoMediumMB THEN TwoMinutes
       ELSE NinetySeconds
  ELSE IF size < AudioSmallMB THEN FiveMinutes
       ELSE IF size < AudioMediumMB THEN ThreeMinutes
       ELSE TwoMinutes

InitSize ==
  /\ NoRun
  /\ NoSegments
  /\ LoggedIn
  /\ InsideRun
  /\ file_size_mb \in 0..MaxSizeMB
  /\ is_video \in BOOLEAN
  /\ optimal_chunk_length_ms = 0

\* the call at line 404 of main
CalculateChunkLength ==
  /\ optimal_chunk_length_ms = 0
  /\ optimal_chunk_length_ms' =
       calculate_optimal_chunk_length(file_size_mb, is_video)
  /\ UNCHANGED <<runVars, segVars, file_size_mb, is_video, loginVars,
                 webVars>>

NextSize == CalculateChunkLength

SpecSize == InitSize /\ [][NextSize]_vars

\* ------------------------------------------------------ a browser session
\* longest audio of the runs the web layer starts, in time units
MaxWebDur == 2

\* wrong keys a visitor types in one session
MaxLoginAttempts == 7

\* a session that has not logged in: check_company_access lines 688-690,
\* and the first run of main has set processing_status, lines 419-420
InitWeb ==
  /\ NoRun
  /\ NoSegments
  /\ NoUpload
  /\ authenticated = FALSE
  /\ login_attempts = 0
  /\ processing_status = "waiting"
  /\ webPc = "idle"
  /\ input_file = FALSE
  /\ audio_file = FALSE
  /\ output_file = FALSE
  /\ web_result = None

\* one click on the login button, lines 840-855: the key is compared
\* whatever login_attempts is; the st.stop() behind the test of
\* login_attempts at line 853 ends this script run only
Login ==
  /\ ~authenticated
  /\ \/ /\ authenticated' = TRUE
        /\ UNCHANGED login_attempts
     \/ /\ login_attempts < MaxLoginAttempts
        /\ login_attempts' = login_attempts + 1
        /\ UNCHANGED authenticated
  /\ UNCHANGED <<runVars, segVars, sizeVars, webVars>>

\* process_transcription up to asyncio.run, lines 438-451: the status is
\* set and the upload is saved, or saving raises and line 497 runs
StartRequest ==
  /\ authenticated
  /\ webPc = "idle"
  /\ is_video' \in BOOLEAN
  /\ web_result' = None
  /\ audio_file' = FALSE
  /\ output_file' = FALSE
  /\ \/ /\ processing_status' = "processing"
        /\ input_file' = TRUE
        /\ webPc' = "saved"
     \/ /\ processing_status' = "error"
        /\ input_file' = FALSE
        /\ webPc' = "idle"
  /\ UNCHANGED <<runVars, segVars, file_size_mb, optimal_chunk_length_ms,
                 loginVars>>

\* async_transcribe lines 529-549: a video has its audio extracted into a
\* new temporary file, or the extraction fails and None is returned
ExtractAudio ==
  /\ webPc = "saved"
  /\ IF is_video
     THEN \/ /\ audio_file' = TRUE
             /\ webPc' = "extracted"
          \/ /\ webPc' = "returned"
             /\ UNCHANGED audio_file
     ELSE /\ webPc' = "extracted"
          /\ UNCHANGED audio_file
  /\ UNCHANGED <<runVars, segVars, sizeVars, loginVars, processing_status,
                 input_file, output_file, web_result>>

\* lines 551-600: the service is built, which may raise, and the temporary
\* output file is created
CreateOutput ==
  /\ webPc = "extracted"
  /\ \/ /\ output_file' = TRUE
        /\ webPc' = "ready"
     \/ /\ webPc' = "returned"
        /\ UNCHANGED output_file
  /\ UNCHANGED <<runVars, segVars, sizeVars, loginVars, processing_status,
                 input_file, audio_file, web_result>>

\* the call of process_audio_transcription, line 606, on the existing and
\* still empty output file
CallPipeline ==
  /\ webPc = "ready"
  /\ webPc' = "pipeline"
  /\ inputOk' \in BOOLEAN
  /\ duration' \in 0..MaxWebDur
  /\ chunk_length_ms' = 1
  /\ outFile' = OldFile
  /\ pc' = "validate"
  /\ outcome' = "running"
  /\ err' = "none"
  /\ tempDir' = FALSE
  /\ wavFile' = FALSE
  /\ normState' = "idle"
  /\ chunkDir' = FALSE
  /\ diskChunks' = {}
  /\ chunks' = <<>>
  /\ splitState' = "idle"
  /\ splitPos' = 0
  /\ chunk_files' = <<>>
  /\ gcs_uris' = <<>>
  /\ bucket' = <<>>
  /\ task' = <<>>
  /\ result' = <<>>
  /\ semaphore' = SemaphoreSlots
  /\ transcripts' = <<>>
  /\ final_transcript' = <<>>
  /\ outOfOrder' = FALSE
  /\ attempts' = <<>>
  /\ UNCHANGED <<segVars, sizeVars, loginVars, processing_status,
                 input_file, audio_file, output_file, web_result>>

\* lines 612-622 and 632-636: on success the output file is read and it
\* and the extracted audio are unlinked; on a raise nothing is unlinked
AfterPipeline(out, audio, video, ok) ==
  IF ok THEN [output |-> FALSE, audio |-> IF video THEN FALSE ELSE audio]
  ELSE [output |-> out, audio |-> audio]

\* process_audio_transcription has returned True or raised, lines 612-636
PipelineReturn ==
  /\ webPc = "pipeline"
  /\ pc = "done"
  /\ web_result' = IF outcome = "Succeeded" THEN Str(outFile.text) ELSE None
  /\ LET left == AfterPipeline(output_file, audio_file, is_video,
                               outcome = "Succeeded") IN
       /\ output_file' = left.output
       /\ audio_file' = left.audio
  /\ webPc' = "returned"
  /\ UNCHANGED <<runVars, segVars, sizeVars, loginVars, processing_status,
                 input_file>>

\* a slip: the status is not set on the failure path
StatusAfterStuck(st, r) == IF Truthy(r) THEN "completed" ELSE st

\* "if result:", lines 467-489
StatusAfter(st, r) == IF Truthy(r) THEN "completed" ELSE "error"

\* process_transcription after asyncio.run, lines 467-492
FinishRequest ==
  /\ webPc = "returned"
  /\ processing_status' = StatusAfter(processing_status, web_result)
  /\ input_file' = FALSE
  /\ webPc' = "idle"
  /\ UNCHANGED <<runVars, segVars, sizeVars, loginVars, audio_file,
                 output_file, web_result>>

\* the steps of process_audio_transcription while the web layer awaits it
PipelineStep ==
  /\ webPc = "pipeline"
  /\ NextLive

NextWeb ==
  \/ Login
  \/ StartRequest
  \/ ExtractAudio
  \/ CreateOutput
  \/ CallPipeline
  \/ PipelineStep
  \/ PipelineReturn
  \/ FinishRequest

SpecWeb == InitWeb /\ [][NextWeb]_vars

\* ================================================================ claims
\* asyncio.gather has returned and its list is in transcripts
RunAllReturned ==
  \/ pc \in {"assemble", "persist"}
  \/ /\ pc \in {"finally", "done"}
     /\ err \in {"none", "EmptyTranscriptError", "PersistError"}

\* what transcribing the audio of chunk c can give
ResultsOfChunk(c) == {None} \cup {TranscriptOf(segs) : segs \in Responses(c)}

\* C1: once process_audio_chunks_parallel has returned, its list has one
\* entry per chunk (N >= 1) and entry i is what the transcription of chunk
\* i returned, a result of the audio of chunk i, whatever the order in
\* which the transcriptions completed.
C1_ResultsInChunkOrder ==
  RunAllReturned =>
    /\ Len(chunk_files) >= 1
    /\ Len(transcripts) = Len(chunk_files)
    /\ \A i \in 1..Len(chunk_files) :
         /\ transcripts[i] = result[i]
         /\ transcripts[i] \in ResultsOfChunk(chunk_files[i])

C1_Witness ==
  /\ pc = "assemble"
  /\ outOfOrder
  /\ Len(transcripts) >= 3
  /\ transcripts[1] = Str(Word(1))
  /\ transcripts[2] = None
  /\ transcripts[3] = Str(Word(3))

\* C2: at every instant at most 5 recognition calls are in flight.
C2_AtMostFiveInFlight ==
  Cardinality(InFlight) <= MAX_CONCURRENT_TRANSCRIPTIONS

C2_Witness ==
  /\ Cardinality(InFlight) = MAX_CONCURRENT_TRANSCRIPTIONS
  /\ semaphore = 0
  /\ \E i \in DOMAIN task : task[i] = "waiting"

\* C3: whatever positive maxConcurrency is supplied (2, say), no more than
\* maxConcurrency recognition calls are in flight. No action reads a
\* supplied bound, so the claim is that the count stays below each of them.
C3_BoundIsSupplied ==
  \A maxConcurrency \in 1..MAX_CONCURRENT_TRANSCRIPTIONS :
    Cardinality(InFlight) <= maxConcurrency

\* the texts of the chunks that gave one, in chunk order, one per line
RECURSIVE WordsUpTo(_, _)
WordsUpTo(ts, k) ==
  IF k = 0 THEN <<>>
  ELSE IF ts[k].none \/ ts[k].text = <<>> THEN WordsUpTo(ts, k - 1)
  ELSE IF WordsUpTo(ts, k - 1) = <<>> THEN Word(k)
  ELSE WordsUpTo(ts, k - 1) \o <<NL>> \o Word(k)

ExactlyOneFailed ==
  Cardinality({i \in DOMAIN transcripts : transcripts[i].none}) = 1

SomeText == \E i \in DOMAIN transcripts : Truthy(transcripts[i])

\* C4: a run in which exactly one chunk's transcription failed (its result
\* is None), some other chunk gave text, and the write of the output did
\* not itself fail, ends Succeeded, and the output file holds the words of
\* the other chunks in chunk order, one per line, nothing standing in for
\* the failed chunk.
C4_OneFailedChunkIsSkipped ==
  (pc = "done" /\ RunAllReturned /\ ExactlyOneFailed /\ SomeText
     /\ err # "PersistError")
  => /\ outcome = "Succeeded"
     /\ outFile = Written(WordsUpTo(transcripts, Len(transcripts)))

C4_Witness ==
  /\ pc = "done"
  /\ outcome = "Succeeded"
  /\ Len(transcripts) = 3
  /\ transcripts[2] = None
  /\ outFile = Written(Word(1) \o <<NL>> \o Word(3))

AllEmpty ==
  /\ RunAllReturned
  /\ \A i \in DOMAIN transcripts : ~Truthy(transcripts[i])

\* C5: when every chunk failed or gave empty text the run ends with the
\* empty-transcript error, and the output file is never created or
\* modified.
C5_AllEmptyWritesNothing ==
  AllEmpty =>
    /\ outFile \in {Absent, OldFile}
    /\ pc # "persist"
    /\ pc = "done" => (outcome = "Failed" /\ err = "EmptyTranscriptError")

C5_Witness ==
  /\ pc = "done"
  /\ AllEmpty
  /\ err = "EmptyTranscriptError"
  /\ \E i \in DOMAIN transcripts : transcripts[i] = None
  /\ \E i \in DOMAIN transcripts : transcripts[i] = Str(<<>>)

NoTempFiles == ~wavFile /\ diskChunks = {}

\* C6: when the run has ended, normally or by a failure of any stage, no
\* temporary file of the run is left: not the normalised audio, not any
\* chunk file, even one written before a later chunk could not be written.
C6_NoTempFilesAfterEnd ==
  (pc = "done" /\ outcome \in {"Succeeded", "Failed"}) => NoTempFiles

\* C7: when a cancelled run has ended no chunk file and no normalised
\* audio file is left, and no transcript was written to the output path.
C7_NoTempFilesAfterCancel ==
  (pc = "done" /\ outcome = "Cancelled")
  => (NoTempFiles /\ outFile \in {Absent, OldFile})

\* C8: when Persist failed the run ends Failed and no partly written
\* output is left at the output path.
C8_NoPartialOutput ==
  (pc = "done" /\ err = "PersistError")
  => (outcome = "Failed" /\ outFile.st # "partial")

\* the assembly step has run on the list in transcripts
Assembled ==
  \/ pc = "persist"
  \/ /\ pc \in {"finally", "done"}
     /\ err \in {"none", "EmptyTranscriptError", "PersistError"}

\* None, or empty once trimmed
Blank(t) == t.none \/ Strip(t.text) = <<>>

\* the texts that are not blank, in index order, a newline between two
RECURSIVE LinesUpTo(_, _)
LinesUpTo(ts, k) ==
  IF k = 0 THEN <<>>
  ELSE IF Blank(ts[k]) THEN LinesUpTo(ts, k - 1)
  ELSE IF \A j \in 1..(k - 1) : Blank(ts[j]) THEN ts[k].text
  ELSE LinesUpTo(ts, k - 1) \o <<NL>> \o ts[k].text

\* C9: assembly fails with the empty-transcript error exactly when every
\* result is None or empty once trimmed; otherwise the assembled text is
\* the texts that are not empty once trimmed, in index order, a single
\* newline between two of them and nothing else.
C9_AssemblyJoinsNonEmptyTexts ==
  Assembled =>
    LET allBlank == \A i \in DOMAIN transcripts : Blank(transcripts[i]) IN
      /\ (err = "EmptyTranscriptError") <=> allBlank
      /\ ~allBlank =>
           final_transcript = LinesUpTo(transcripts, Len(transcripts))

C9_Witness ==
  /\ pc = "persist"
  /\ Len(transcripts) = 4
  /\ transcripts[1] = Str(<<>>)
  /\ transcripts[2] = Str(Word(2))
  /\ transcripts[3] = None
  /\ transcripts[4] = Str(Word(4))
  /\ final_transcript = Word(2) \o <<NL>> \o Word(4)

\* ceil(T / L) for positive T and L
CeilDiv(T, L) == CHOOSE n \in 1..T : (n - 1) * L < T /\ T <= n * L

RECURSIVE SumDurations(_)
SumDurations(cs) ==
  IF cs = <<>> THEN 0 ELSE Head(cs).duration + SumDurations(Tail(cs))

\* C10: for a positive chunk length L and a duration T > 0 the split gives
\* ceil(T/L) chunks in temporal order: the first starts at 0, each starts
\* where its predecessor ends, all but the last last exactly L, the last
\* lasts more than 0 and at most L, and the durations add up to T; the
\* files handed back are these chunks in this order.
C10_ChunksPartitionTheAudio ==
  (chunkDir /\ duration > 0 /\ chunk_length_ms > 0) =>
    LET n == Len(chunks) IN
      /\ n = CeilDiv(duration, chunk_length_ms)
      /\ chunks[1].start = 0
      /\ \A i \in 2..n :
           chunks[i].start = chunks[i - 1].start + chunks[i - 1].duration
      /\ \A i \in 1..(n - 1) : chunks[i].duration = chunk_length_ms
      /\ chunks[n].duration > 0
      /\ chunks[n].duration <= chunk_length_ms
      /\ SumDurations(chunks) = duration
      /\ splitState = "finished" => chunk_files = [k \in 1..n |-> k]

C10_Witness ==
  /\ duration = 7
  /\ chunk_length_ms = 3
  /\ splitState = "finished"
  /\ Len(chunk_files) = 3
  /\ [i \in 1..3 |-> chunks[i].duration] = <<3, 3, 1>>

\* the upload of chunk i was attempted and did not store its audio
StagingFailed(i) ==
  /\ i <= Len(gcs_uris)
  /\ ~(gcs_uris[i] \in DOMAIN bucket /\ bucket[gcs_uris[i]] = chunk_files[i])

\* C11: when the staging of chunk i failed, the result of chunk i is None:
\* no text stands in its slot of the list handed to the assembly.
C11_FailedStagingGivesNone ==
  \A i \in DOMAIN task :
    (task[i] = "done" /\ StagingFailed(i)) => result[i] = None

\* a chunk whose recognition returns None leaves the run and the siblings
\* as they are
FailureIsAbsorbed ==
  \A i \in DOMAIN task :
    (/\ task[i] = "running"
     /\ DOMAIN task' = DOMAIN task
     /\ task'[i] = "done"
     /\ result'[i] = None)
    => /\ pc' = "transcribe"
       /\ err' = "none"
       /\ attempts' = attempts
       /\ \A j \in DOMAIN task \ {i} :
            task'[j] = task[j] /\ result'[j] = result[j]

\* an upload that stores nothing leaves the upload loop running
StagingFailureIsAbsorbed ==
  (pc = "stage" /\ Len(gcs_uris') = Len(gcs_uris) + 1 /\ bucket' = bucket)
  => (pc' = "stage" /\ err' = "none")

\* C12: every chunk gets exactly one recognition attempt and exactly one
\* result; a failure of a chunk's staging or recognition does not leave
\* process_audio_chunks_parallel and does not cancel, skip or abort the
\* attempt of a sibling.
C12_OneAttemptPerChunk ==
  /\ [](\A i \in DOMAIN task :
          attempts[i] = IF task[i] \in {"running", "done"} THEN 1 ELSE 0)
  /\ [](RunAllReturned =>
          /\ Len(transcripts) = Len(chunk_files)
          /\ \A i \in 1..Len(chunk_files) :
               task[i] = "done" /\ attempts[i] = 1)
  /\ [][FailureIsAbsorbed /\ StagingFailureIsAbsorbed]_vars

C12_Witness ==
  /\ pc = "assemble"
  /\ Len(transcripts) = 3
  /\ StagingFailed(1)
  /\ ~StagingFailed(2)
  /\ transcripts[2] = None
  /\ transcripts[3] = Str(Word(3))
  /\ \A i \in 1..3 : attempts[i] = 1

\* C13: the call reports success only when the output file has been
\* written and holds exactly the assembled transcript: the non-empty chunk
\* texts in chunk order, newline joined, no header, footer or metadata.
C13_SuccessMeansWritten ==
  outcome = "Succeeded" =>
    /\ outFile.st = "written"
    /\ outFile.text = LinesUpTo(transcripts, Len(transcripts))
    /\ outFile.text # <<>>

C13_Witness ==
  /\ pc = "done"
  /\ outcome = "Succeeded"
  /\ Len(transcripts) = 2
  /\ outFile.text = Word(1) \o <<NL>> \o Word(2)

\* C14: for a missing or empty input file the run fails at validation
\* before any work: no temporary directory or file, no normalisation,
\* chunking, upload, recognition or output write.
C14_InvalidInputDoesNothing ==
  ~inputOk =>
    /\ pc \in {"validate", "done"}
    /\ pc = "done" => (outcome = "Failed" /\ err = "InputError")
    /\ ~tempDir /\ ~wavFile /\ ~chunkDir /\ diskChunks = {}
    /\ normState = "idle" /\ splitState = "idle"
    /\ gcs_uris = <<>> /\ bucket = <<>> /\ task = <<>>
    /\ outFile \in {Absent, OldFile}

C14_Witness ==
  /\ ~inputOk
  /\ pc = "done"
  /\ err = "InputError"
  /\ outFile = OldFile

\* C15: the call ends by returning True or by raising; it returns True
\* exactly on success and never returns False.
C15_TrueOrRaise ==
  /\ (pc = "done") <=> (outcome # "running")
  /\ pc = "done" =>
       /\ outcome \in {"Succeeded", "Failed", "Cancelled"}
       /\ (outcome = "Succeeded") <=> (err = "none")

C15_Witness ==
  /\ pc = "done"
  /\ err = "PersistError"
  /\ outcome = "Failed"
  /\ outFile.st = "partial"

\* the stages in their order on the success path; staging and the gather
\* together are TranscribeAll
StageOrder ==
  {<<"validate", "normalize">>, <<"normalize", "chunk">>,
   <<"chunk", "stage">>, <<"stage", "transcribe">>,
   <<"transcribe", "assemble">>, <<"assemble", "persist">>,
   <<"persist", "finally">>}

\* what each stage finds done when it starts
StageEntered ==
  /\ pc = "normalize" => (inputOk /\ tempDir)
  /\ pc = "chunk" => wavFile
  /\ pc = "stage" => (splitState = "finished" /\ chunk_files # <<>>
                        /\ Range(chunk_files) \subseteq diskChunks)
  /\ pc = "transcribe" => Len(gcs_uris) = Len(chunk_files)
  /\ pc = "assemble" => (Len(task) = Len(chunk_files)
                           /\ \A i \in DOMAIN task : task[i] = "done")
  /\ pc = "persist" => Strip(final_transcript) # <<>>
  /\ err # "none" => pc \in {"finally", "done"}
  /\ outcome = "Succeeded" => outFile.st = "written"

\* C16: the run passes through Validate, Normalize, Chunk, TranscribeAll,
\* Assemble, Persist in this order: a stage starts only when its
\* predecessor has completed successfully, none is repeated or skipped, and
\* a failure of a stage goes straight to the end without a later stage.
C16_StagesInOrder ==
  /\ []StageEntered
  /\ [][pc' # pc =>
          \/ err' = "none" /\ <<pc, pc'>> \in StageOrder
          \/ err' # "none" /\ err = "none" /\ pc' \in {"finally", "done"}
          \/ pc = "finally" /\ pc' = "done" /\ err' = err]_vars

C16_Witness ==
  /\ pc = "done"
  /\ outcome = "Succeeded"
  /\ normState = "exported"
  /\ Len(chunk_files) = 4
  /\ Len(transcripts) = 4

\* C17: for decoded audio of zero duration the normalisation fails, so
\* split_audio_for_processing is never called with empty audio.
C17_EmptyAudioStopsAtNormalize ==
  duration = 0 =>
    /\ pc # "chunk"
    /\ splitState = "idle"
    /\ (pc = "done" /\ inputOk /\ err # "Cancelled")
         => err = "NormalizationError"

\* C18: when normalisation fails the run aborts before chunking: no chunk
\* file, no upload, no recognition call, no output written, and the run
\* ends Failed.
C18_NormalizationFailureAborts ==
  (normState = "failed" \/ err = "NormalizationError") =>
    /\ pc \in {"normalize", "finally", "done"}
    /\ splitState = "idle" /\ chunks = <<>> /\ chunk_files = <<>>
    /\ ~chunkDir /\ diskChunks = {}
    /\ gcs_uris = <<>> /\ task = <<>>
    /\ outFile \in {Absent, OldFile}
    /\ (pc = "done" /\ err # "Cancelled")
         => (outcome = "Failed" /\ err = "NormalizationError")

C18_Witness ==
  /\ pc = "done"
  /\ normState = "failed"
  /\ err = "NormalizationError"
  /\ outcome = "Failed"

\* C19: assembly starts only when every chunk's attempt has completed: the
\* empty-transcript error is raised, and the output file written, only
\* while no recognition call is in flight.
C19_AssemblyAfterAllAttempts ==
  (\/ pc \in {"assemble", "persist"}
   \/ err \in {"EmptyTranscriptError", "PersistError"}
   \/ outFile.st \in {"written", "partial"})
  => /\ InFlight = {}
     /\ Len(task) = Len(chunk_files)
     /\ \A i \in DOMAIN task : task[i] = "done"

C19_Witness ==
  /\ pc = "done"
  /\ err = "EmptyTranscriptError"
  /\ outOfOrder
  /\ Len(task) = 2

\* C20: in a run in which every admitted recognition call returns, every
\* waiting chunk is eventually admitted by the gate, the gather eventually
\* returns, and the run ends Succeeded or Failed.
C20_RunTerminates ==
  /\ (pc = "transcribe")
       ~> (/\ pc = "assemble"
           /\ Len(transcripts) = Len(chunk_files)
           /\ \A i \in DOMAIN task : attempts[i] = 1 /\ task[i] = "done")
  /\ <>(pc = "done" /\ outcome \in {"Succeeded", "Failed"})

C20_Witness ==
  /\ pc = "done"
  /\ outcome = "Succeeded"
  /\ Len(task) = SemaphoreSlots + 1
  /\ \A i \in 1..SemaphoreSlots : result[i] = None
  /\ result[SemaphoreSlots + 1] = Str(Word(SemaphoreSlots + 1))

\* C21: the temporary file of a chunk is deleted as soon as the chunk's
\* own transcription attempt has completed, whatever the other chunks'
\* attempts are doing.
C21_ChunkFileGoesWithItsAttempt ==
  \A i \in DOMAIN task :
    task[i] = "done" => chunk_files[i] \notin diskChunks

\* C22: on a response with segments s1..sk, transcribe_audio_chunk
\* returns the segments' first alternatives in recognizer order, joined by
\* one space and trimmed, the value of trim(s1 + " " + ... + " " + sk); on
\* a response with no segment it returns the empty string.
C22_SegmentsJoinedBySpace ==
  ~transcript.none =>
    /\ transcript.text = Strip(Join(<<SP>>, segments))
    /\ segments = <<>> => transcript.text = <<>>

C22_Witness ==
  /\ segments = << <<"a">>, <<SP, "a">>, <<"a", SP, "b">> >>
  /\ transcript = Str(<<"a", SP, SP, "a", SP, "a", SP, "b">>)

\* the durations the policy is said to give, in ms
PolicyTable(size, video) ==
  IF video
  THEN IF size < 100 THEN 180000 ELSE IF size < 300 THEN 120000 ELSE 90000
  ELSE IF size < 50 THEN 300000 ELSE IF size < 150 THEN 180000 ELSE 120000

\* C23: calculate_optimal_chunk_length returns a positive duration that,
\* for audio and for video separately, does not grow with the file size:
\* audio 300000, 180000, 120000 ms with limits 50 and 150 MB, video 180000,
\* 120000, 90000 ms with limits 100 and 300 MB.
C23_ChunkLengthShrinksWithSize ==
  optimal_chunk_length_ms # 0 =>
    /\ optimal_chunk_length_ms > 0
    /\ optimal_chunk_length_ms = PolicyTable(file_size_mb, is_video)
    /\ \A smaller \in 0..file_size_mb :
         calculate_optimal_chunk_length(smaller, is_video)
           >= optimal_chunk_length_ms

C23_Witness ==
  /\ is_video
  /\ file_size_mb = 300
  /\ optimal_chunk_length_ms = 90000

\* the upload loop adds the uri of the next chunk and nothing else, and
\* stores at most that chunk's blob
StagingStep ==
  /\ gcs_uris' # gcs_uris =>
       /\ pc = "stage" /\ pc' = "stage"
       /\ gcs_uris' = Append(gcs_uris, GcsPath(Len(gcs_uris) + 1))
       /\ semaphore' = semaphore
  /\ bucket' # bucket =>
       /\ gcs_uris' # gcs_uris
       /\ DOMAIN bucket' \ DOMAIN bucket \subseteq {GcsPath(Len(gcs_uris) + 1)}

\* C24: staging is done one chunk at a time in index order, outside the
\* admission gate, and no recognition call is submitted before staging has
\* been attempted for every chunk.
C24_StagingBeforeAnyRecognition ==
  /\ [](pc = "stage" =>
          /\ task = <<>>
          /\ semaphore = SemaphoreSlots
          /\ Len(gcs_uris) <= Len(chunk_files))
  /\ [](\A k \in DOMAIN gcs_uris : gcs_uris[k] = GcsPath(k))
  /\ [](task # <<>> =>
          /\ Len(gcs_uris) = Len(chunk_files)
          /\ Len(task) = Len(chunk_files))
  /\ [][StagingStep]_vars

C24_Witness ==
  /\ pc = "transcribe"
  /\ Len(chunk_files) = 3
  /\ GcsPath(1) \notin DOMAIN bucket
  /\ GcsPath(3) \in DOMAIN bucket
  /\ task = <<"running", "waiting", "waiting">>

\* C25: the recognition call for chunk i reads the audio this run staged
\* for chunk i, whatever other runs have stored in the same bucket.
C25_ReadsOwnAudio ==
  \A i \in DOMAIN task :
    (task[i] \in {"running", "done"} /\ gcs_uris[i] \in DOMAIN bucket)
      => bucket[gcs_uris[i]] = chunk_files[i]

\* C26: with a chunk_length_ms of zero or less the run fails at the Chunk
\* stage: nothing is uploaded, no recognition call is made, no output is
\* written, and the normalised audio file is gone when the call ends.
C26_BadChunkLengthFailsAtChunk ==
  chunk_length_ms <= 0 =>
    /\ pc \notin {"stage", "transcribe", "assemble", "persist"}
    /\ gcs_uris = <<>> /\ bucket = <<>> /\ task = <<>>
    /\ chunk_files = <<>> /\ diskChunks = {}
    /\ outFile \in {Absent, OldFile}
    /\ pc = "done" => (outcome # "Succeeded" /\ ~wavFile /\ ~tempDir)
    /\ (pc = "done" /\ splitState # "idle" /\ err # "Cancelled")
         => (outcome = "Failed" /\ err = "ChunkingError")

C26_Witness ==
  /\ chunk_length_ms < 0
  /\ duration > 0
  /\ pc = "done"
  /\ err = "ChunkingError"
  /\ splitState = "finished"

\* C27: when the run has ended, every temporary directory it created is
\* gone: the one of the normalised audio and the one split_audio made for
\* the chunk files.
C27_NoTempDirAfterEnd ==
  pc = "done" => (~tempDir /\ ~chunkDir)

\* C28: once login_attempts has reached 5, no later attempt in the
\* session sets authenticated, not even one with the right key, and
\* login_attempts never exceeds 5.
C28_LockedOutAfterFive ==
  /\ [](login_attempts <= 5)
  /\ [][login_attempts >= 5 => authenticated' = authenticated]_vars

\* process_transcription has returned
RequestOver == webPc = "idle" /\ processing_status \in {"completed", "error"}

\* C29: after process_transcription has completed, with or without a
\* transcript, every temporary file of the web layer is deleted: the saved
\* upload, the temporary output text file and the audio extracted from a
\* video.
C29_NoWebTempFilesAfterRequest ==
  RequestOver => (~input_file /\ ~output_file /\ ~audio_file)

\* async_transcribe handed back a transcript that is not empty
GotTranscript == ~web_result.none /\ web_result.text # <<>>

\* the status when process_transcription has returned: completed exactly
\* with a transcript, error otherwise, and processing only inside
StatusAtReturn ==
  /\ RequestOver => (processing_status = "completed" <=> GotTranscript)
  /\ webPc = "idle" => processing_status # "processing"
  /\ webPc # "idle" => processing_status = "processing"

\* C30, as stated: the status moves from waiting to processing when
\* process_transcription starts; when it returns the status is completed
\* exactly when a non-empty transcript was obtained and error otherwise,
\* and never processing.
C30_StatusFromWaiting ==
  /\ []StatusAtReturn
  /\ [][processing_status' = "processing" /\ processing_status # "processing"
          => /\ webPc = "idle" /\ webPc' = "saved"
             /\ processing_status = "waiting"]_vars

\* C30, amended: the status moves to processing when process_transcription
\* starts, from waiting for the first request of a session and from the
\* completed or error of the request before for a later one; when it
\* returns the status is completed exactly when a non-empty transcript was
\* obtained and error otherwise, and never processing.
C30_StatusFollowsRequest ==
  /\ []StatusAtReturn
  /\ [][processing_status' = "processing" /\ processing_status # "processing"
          => /\ webPc = "idle" /\ webPc' = "saved"
             /\ processing_status \in {"waiting", "completed", "error"}]_vars
  /\ [][processing_status' = "waiting" => processing_status = "waiting"]_vars

C30_Witness ==
  /\ webPc = "idle"
  /\ processing_status = "completed"
  /\ web_result = Str(Word(1) \o <<NL>> \o Word(2))
  /\ ~is_video
  /\ login_attempts = 0

====
